---- MODULE Spec2Model ----
(***************************************************************************)
(* The identity directory of ipfs-identity (util/util.go): IdentityManager *)
(* keeps the content id (cid) of the latest user snapshot in memory and    *)
(* performs load -> mutate -> save against an IPFS node.  Several HTTP     *)
(* handler goroutines call AddUser / EditUser / DeleteUser / Login on the  *)
(* one global instance (handler/handler.go:14).                            *)
(***************************************************************************)
EXTENDS Integers, Sequences, FiniteSets, TLC

VARIABLES
    cid,      \* IdentityManager.cid: the content id of the user database
    ipfs,     \* the blob store: ipfs[a] is the bytes stored under address a
    mu,       \* IdentityManager.mu (sync.RWMutex): readers held, writer held
    now,      \* the last reading of the clock (time.Now)
    ops,      \* number of calls started so far (numbers the calls)
    pc,       \* per goroutine: position inside the call it is executing
    call,     \* per goroutine: the call it executes; once it returned, the
              \* call if it was a mutation that returned nil, else NoCall
    users,    \* per goroutine: the local map[string]User of the call
    newcid,   \* per goroutine: the address ipfs.Add returned to saveUsers
    ret,      \* the most recent return: goroutine, method, id argument,
              \* and the error and id returned
    conc,     \* per goroutine: goroutines whose current/last call overlapped
    begun,    \* the methods called so far
    deleted,  \* ids whose DeleteUser returned nil
    writes,   \* number of executions of `im.cid = cid`
    succ,     \* number of AddUser/EditUser/DeleteUser calls that returned nil
    \* The ledger variant (the express server in front of Hyperledger Fabric):
    world,    \* the ledger's world state: the user stored under a username
    req,      \* per client: the request whose handler is suspended at an await
    resp,     \* the most recent response: client, route, username, status
    sessions, \* per username: the successful /login and /logout, in order
    nreq      \* number of requests received so far

(* The variables of the IPFS directory and those of the ledger variant. *)
ivars == <<cid, ipfs, mu, now, ops, pc, call, users, newcid, ret, conc,
           begun, deleted, writes, succ>>
lvars == <<world, req, resp, sessions, nreq>>

vars == <<cid, ipfs, mu, now, ops, pc, call, users, newcid, ret, conc,
          begun, deleted, writes, succ, world, req, resp, sessions, nreq>>

----------------------------------------------------------------------------
(* Bounds of the model *)

NumProcs == 2
MaxOps == 3
MaxRequests == 4

Procs == 1..NumProcs

(* Inputs of the handlers.  TooLong stands for a plaintext of more than 72 *)
(* bytes, which bcrypt.GenerateFromPassword rejects.                       *)
TooLong == "plaintext longer than 72 bytes"
Usernames == {"", "alice", "bob"}
Plaintexts == {"", "secret", "wrong", TooLong}

(* The inputs of the concurrent exploration. *)
ConcUsernames == {"alice", "bob"}
ConcPlaintexts == {"secret"}

(* The error texts of util.go; Nil is a nil error. *)
Nil == "nil"
ErrDuplicate == "username already exists"
ErrNotFound == "user not found"
ErrInvalid == "invalid password"
ErrFetch == "failed to fetch data from IPFS"
ErrAdd == "failed to add data to IPFS"
ErrHash == "failed to hash password"

Mutators == {"AddUser", "EditUser", "DeleteUser"}

----------------------------------------------------------------------------
(* Pure helpers *)

EmptyMap == << >>

(* type User *)
User(id, username, password, created, updated) ==
    [id |-> id, username |-> username, password |-> password,
     created_at |-> created, updated_at |-> updated]

Min(S) == CHOOSE x \in S : \A y \in S : x <= y

(* json.Marshal of a map[string]User: one object, keys in sorted order,   *)
(* each value the record's fields.                                         *)
RECURSIVE MarshalKeys(_, _)
MarshalKeys(m, keys) ==
    IF keys = {} THEN << >>
    ELSE LET k == Min(keys)
         IN  <<[key |-> k, value |-> m[k]]>> \o MarshalKeys(m, keys \ {k})

Marshal(m) == MarshalKeys(m, DOMAIN m)

(* json.Unmarshal into a map[string]User *)
Unmarshal(data) ==
    [k \in {data[i].key : i \in DOMAIN data} |->
        (CHOOSE e \in {data[i] : i \in DOMAIN data} : e.key = k).value]

(* bcrypt.GenerateFromPassword: a salted one-way verifier; every call     *)
(* draws a fresh salt.  It fails on a plaintext of more than 72 bytes.    *)
HashFails(password) == password = TooLong
GenerateFromPassword(password, salt) ==
    [salt |-> salt, of |-> password]

(* Mutant: the comparison's error is dropped, every plaintext verifies. *)
CompareHashAndPassword_AnyPlaintext(hash, password) == TRUE

(* bcrypt.CompareHashAndPassword(hash, password) == nil *)
CompareHashAndPassword(hash, password) == hash.of = password

(* The content id ipfs.Add computes from the bytes: the same bytes always  *)
(* get the same id, different bytes different ids.  NoCid is "".           *)
NoCid == << >>
AddressOf(data) == <<"Qm", data>>

(* Mutant: the store keeps the latest blob only. *)
IpfsAdd_KeepsLatestOnly(store, data) ==
    [a \in {AddressOf(data)} |-> data]

(* ipfs.Add: stores the bytes under their content id; what is stored      *)
(* under an id is never replaced.                                         *)
IpfsAdd(store, data) ==
    [a \in DOMAIN store \cup {AddressOf(data)} |->
        IF a \in DOMAIN store THEN store[a] ELSE data]

(* ipfs.Cat followed by io.ReadAll *)
IpfsCat(store, a) == store[a]

(* The mapping a pointer value names (loadUsers lines 74-93). *)
Snapshot(store, c) == IF c = NoCid THEN EmptyMap ELSE Unmarshal(IpfsCat(store, c))

Current == Snapshot(ipfs, cid)

(* Mutant: the scan stops after the first record. *)
UsernameExists_FirstOnly(m, username) ==
    DOMAIN m # {} /\ m[Min(DOMAIN m)].username = username

(* The username scan of AddUser. *)
UsernameExists(m, username) == \E k \in DOMAIN m : m[k].username = username

(* Mutant: the scan compares the password only. *)
LoginOutcomes_AnyUsername(m, username, password) ==
    IF DOMAIN m = {}
    THEN {[err |-> ErrNotFound, id |-> 0]}
    ELSE {IF CompareHashAndPassword(m[k].password, password)
          THEN [err |-> Nil, id |-> k]
          ELSE [err |-> ErrInvalid, id |-> 0]
          : k \in DOMAIN m}

(* Login's scan: Go ranges over a map in an unspecified order, so with    *)
(* several records of one username any of them may be the first match.    *)
LoginOutcomes(m, username, password) ==
    IF ~UsernameExists(m, username)
    THEN {[err |-> ErrNotFound, id |-> 0]}
    ELSE {IF CompareHashAndPassword(m[k].password, password)
          THEN [err |-> Nil, id |-> k]
          ELSE [err |-> ErrInvalid, id |-> 0]
          : k \in {j \in DOMAIN m : m[j].username = username}}

(* Mutant: the map is emptied instead of losing one key. *)
MapDelete_All(m, k) == EmptyMap

(* m with key k removed (delete(users, id)) and with k set (users[id] = u) *)
MapDelete(m, k) == [j \in DOMAIN m \ {k} |-> m[j]]
MapSet(m, k, v) == [j \in DOMAIN m \cup {k} |-> IF j = k THEN v ELSE m[j]]

(* The answers of the HTTP handlers to the error im returned.  handler.go  *)
(* holds two versions of the handlers: the first answers a successful     *)
(* update or delete with a JSON body (status 200, written by Encode), the *)
(* second with WriteHeader(http.StatusNoContent).                         *)
StatusOK == 200
StatusNoContent == 204
StatusBadRequest == 400
StatusUnauthorized == 401

Handlers == {"first", "second"}

(* Mutant: the handler answers an error without a status of its own. *)
UpdateUserHandler_ErrorIsOK(h, err) ==
    [status |-> StatusOK, body |-> IF err = Nil THEN "message, id" ELSE "error"]

UpdateUserHandler(h, err) ==
    IF err # Nil THEN [status |-> StatusBadRequest, body |-> "error"]
    ELSE IF h = "first" THEN [status |-> StatusOK, body |-> "message, id"]
    ELSE [status |-> StatusNoContent, body |-> "none"]

DeleteUserHandler(h, err) ==
    IF err # Nil THEN [status |-> StatusBadRequest, body |-> "error"]
    ELSE IF h = "first" THEN [status |-> StatusOK, body |-> "message, id"]
    ELSE [status |-> StatusNoContent, body |-> "none"]

(* The ledger variant: the inputs of its requests, a client with no       *)
(* request in progress, and no response yet.                              *)
LedgerUsernames == {"alice", "bob"}
LedgerPasswords == {"secret", "wrong"}
NoReq == [route |-> "none", username |-> "", password |-> "", pc |-> "idle"]
NoResp == [client |-> 0, route |-> "none", username |-> "", code |-> 0]

NoCall == [op |-> "none", id |-> 0, username |-> "", password |-> "", n |-> 0]
NoRet == [proc |-> 0, op |-> "none", arg |-> 0, err |-> "none", id |-> 0]

----------------------------------------------------------------------------
Init ==
    /\ cid = NoCid
    /\ ipfs = << >>
    /\ mu = [readers |-> 0, writer |-> FALSE]
    /\ now = 0
    /\ ops = 0
    /\ pc = [p \in Procs |-> "idle"]
    /\ call = [p \in Procs |-> NoCall]
    /\ users = [p \in Procs |-> EmptyMap]
    /\ newcid = [p \in Procs |-> NoCid]
    /\ ret = NoRet
    /\ conc = [p \in Procs |-> {}]
    /\ begun = {}
    /\ deleted = {}
    /\ writes = 0
    /\ succ = 0
    /\ world = << >>
    /\ req = [c \in Procs |-> NoReq]
    /\ resp = NoResp
    /\ sessions = [u \in LedgerUsernames |-> << >>]
    /\ nreq = 0

(* A handler goroutine enters a method of the IdentityManager. *)
Begin(p, c) ==
    /\ pc[p] = "idle"
    /\ ops < MaxOps
    /\ ops' = ops + 1
    /\ call' = [call EXCEPT ![p] = [c EXCEPT !.n = ops + 1]]
    /\ pc' = [pc EXCEPT ![p] = "rlock"]
    /\ conc' = [q \in Procs |->
                  IF q = p THEN {r \in Procs \ {p} : pc[r] # "idle"}
                  ELSE IF pc[q] # "idle" THEN conc[q] \cup {p}
                  ELSE conc[q] \ {p}]
    /\ begun' = begun \cup {c.op}
    /\ UNCHANGED <<cid, ipfs, mu, now, users, newcid, ret, deleted, writes, succ>>
    /\ UNCHANGED lvars

(* The ids a caller can name: the ids of the records stored so far (an id *)
(* is known only from AddUser's answer), or 0 for an id never issued.     *)
KnownIds ==
    {0} \cup UNION {{ipfs[a][i].key : i \in DOMAIN ipfs[a]} : a \in DOMAIN ipfs}

CallAddUser(p, U, P) ==
    \E u \in U, pw \in P :
        Begin(p, [op |-> "AddUser", id |-> 0, username |-> u, password |-> pw, n |-> 0])

CallEditUser(p, U, P) ==
    \E id \in KnownIds, u \in U \cup {""}, pw \in P \cup {""} :
        Begin(p, [op |-> "EditUser", id |-> id, username |-> u, password |-> pw, n |-> 0])

CallDeleteUser(p) ==
    \E id \in KnownIds :
        Begin(p, [op |-> "DeleteUser", id |-> id, username |-> "", password |-> "", n |-> 0])

CallLogin(p, U, P) ==
    \E u \in U, pw \in P :
        Begin(p, [op |-> "Login", id |-> 0, username |-> u, password |-> pw, n |-> 0])

(* The call of goroutine p returns err (and, from AddUser and Login, id). *)
Return(p, err, id) ==
    /\ pc' = [pc EXCEPT ![p] = "idle"]
    /\ ret' = [proc |-> p, op |-> call[p].op, arg |-> call[p].id,
               err |-> err, id |-> id]
    /\ users' = [users EXCEPT ![p] = EmptyMap]
    /\ newcid' = [newcid EXCEPT ![p] = NoCid]
    /\ call' = [call EXCEPT ![p] =
                  IF err = Nil /\ @.op \in Mutators THEN @ ELSE NoCall]
    /\ succ' = IF err = Nil /\ call[p].op \in Mutators THEN succ + 1 ELSE succ
    /\ deleted' = IF err = Nil /\ call[p].op = "DeleteUser"
                  THEN deleted \cup {call[p].id} ELSE deleted

(* loadUsers: im.mu.RLock() *)
LoadRLock(p) ==
    /\ pc[p] = "rlock"
    /\ ~mu.writer
    /\ mu' = [mu EXCEPT !.readers = @ + 1]
    /\ pc' = [pc EXCEPT ![p] = "cat"]
    /\ UNCHANGED <<cid, ipfs, now, ops, call, users, newcid, ret, conc, begun,
                   deleted, writes, succ>>
    /\ UNCHANGED lvars

(* loadUsers under the read lock: the map named by im.cid, then RUnlock. *)
LoadOk(p) ==
    /\ pc[p] = "cat"
    /\ mu' = [mu EXCEPT !.readers = @ - 1]
    /\ users' = [users EXCEPT ![p] = Snapshot(ipfs, cid)]
    /\ pc' = [pc EXCEPT ![p] = "body"]
    /\ UNCHANGED <<cid, ipfs, now, ops, call, newcid, ret, conc, begun,
                   deleted, writes, succ>>
    /\ UNCHANGED lvars

(* Mutant: a failed fetch makes the manager forget its cid. *)
LoadFail_ResetsCid(p) ==
    /\ pc[p] = "cat"
    /\ cid # NoCid
    /\ mu' = [mu EXCEPT !.readers = @ - 1]
    /\ Return(p, ErrFetch, 0)
    /\ cid' = NoCid
    /\ UNCHANGED <<ipfs, now, ops, conc, begun, writes>>
    /\ UNCHANGED lvars

(* Mutant: the error path of loadUsers returns without RUnlock. *)
LoadFail_KeepsRLock(p) ==
    /\ pc[p] = "cat"
    /\ cid # NoCid
    /\ Return(p, ErrFetch, 0)
    /\ UNCHANGED <<cid, ipfs, mu, now, ops, conc, begun, writes>>
    /\ UNCHANGED lvars

(* Mutant: loadUsers fetches also when im.cid is empty, and the fetch can  *)
(* fail.                                                                  *)
LoadFail_AlsoWhenUnset(p) ==
    /\ pc[p] = "cat"
    /\ mu' = [mu EXCEPT !.readers = @ - 1]
    /\ Return(p, ErrFetch, 0)
    /\ UNCHANGED <<cid, ipfs, now, ops, conc, begun, writes>>
    /\ UNCHANGED lvars

(* loadUsers: ipfs.Cat fails (only reached when im.cid is set); RUnlock,  *)
(* and the caller returns the error.                                      *)
LoadFail(p) ==
    /\ pc[p] = "cat"
    /\ cid # NoCid
    /\ mu' = [mu EXCEPT !.readers = @ - 1]
    /\ Return(p, ErrFetch, 0)
    /\ UNCHANGED <<cid, ipfs, now, ops, conc, begun, writes>>
    /\ UNCHANGED lvars

(* Mutant: an early error return also clears im.cid. *)
Fail_ClearsCid(p, err) ==
    /\ Return(p, err, 0)
    /\ cid' = NoCid
    /\ UNCHANGED <<ipfs, now, writes>>

(* A method returns err before it reaches saveUsers. *)
Fail(p, err) ==
    /\ Return(p, err, 0)
    /\ UNCHANGED <<cid, ipfs, now, writes>>

(* Mutant: saveUsers writes im.cid before it looks at ipfs.Add's error, so *)
(* a failed Add stores the empty cid.                                     *)
SaveAdd_WritesCidBeforeErrCheck(p, m) ==
    \/ /\ ipfs' = IpfsAdd(ipfs, Marshal(m))
       /\ newcid' = [newcid EXCEPT ![p] = AddressOf(Marshal(m))]
       /\ users' = [users EXCEPT ![p] = m]
       /\ pc' = [pc EXCEPT ![p] = "lock"]
       /\ UNCHANGED <<ret, call, succ, deleted, cid, writes>>
    \/ /\ Return(p, ErrAdd, 0)
       /\ cid' = NoCid
       /\ writes' = writes + 1
       /\ UNCHANGED ipfs

(* saveUsers up to ipfs.Add (lines 99-108): marshal m and add it to IPFS; *)
(* then the goroutine goes on to lock for the cid write.  When ipfs.Add   *)
(* fails saveUsers returns the error and so does the caller.              *)
SaveAdd(p, m) ==
    /\ \/ /\ ipfs' = IpfsAdd(ipfs, Marshal(m))
          /\ newcid' = [newcid EXCEPT ![p] = AddressOf(Marshal(m))]
          /\ users' = [users EXCEPT ![p] = m]
          /\ pc' = [pc EXCEPT ![p] = "lock"]
          /\ UNCHANGED <<ret, call, succ, deleted>>
       \/ /\ Return(p, ErrAdd, 0)
          /\ UNCHANGED ipfs
    /\ UNCHANGED <<cid, writes>>

(* AddUser after loadUsers (lines 126-151). *)
AddUserBody(p) ==
    /\ pc[p] = "body"
    /\ call[p].op = "AddUser"
    /\ LET c == call[p] IN
       IF UsernameExists(users[p], c.username)
       THEN Fail(p, ErrDuplicate)
       ELSE IF HashFails(c.password)
       THEN Fail(p, ErrHash)
       ELSE \E t1 \in {now, now + 1} : \E t2 \in {t1, t1 + 1} :
            /\ now' = t2
            /\ SaveAdd(p, MapSet(users[p], c.n,
                    User(c.n, c.username,
                         GenerateFromPassword(c.password, c.n), t1, t2)))
    /\ UNCHANGED <<mu, ops, conc, begun>>
    /\ UNCHANGED lvars

(* Mutant: EditUser hashes newPassword even when it is empty. *)
EditedUser_AlwaysRehashes(user, newUsername, newPassword, salt, t) ==
    [user EXCEPT
        !.username = IF newUsername # "" THEN newUsername ELSE @,
        !.password = GenerateFromPassword(newPassword, salt),
        !.updated_at = t]

(* Mutant: EditUser never replaces the password. *)
EditedUser_NeverRehashes(user, newUsername, newPassword, salt, t) ==
    [user EXCEPT
        !.username = IF newUsername # "" THEN newUsername ELSE @,
        !.updated_at = t]

(* Mutant: EditUser writes the record back as a newly created one. *)
EditedUser_ResetsCreatedAt(user, newUsername, newPassword, salt, t) ==
    [user EXCEPT
        !.username = IF newUsername # "" THEN newUsername ELSE @,
        !.password = IF newPassword # ""
                     THEN GenerateFromPassword(newPassword, salt) ELSE @,
        !.created_at = t,
        !.updated_at = t]

(* The record EditUser writes back (lines 171-184). *)
EditedUser(user, newUsername, newPassword, salt, t) ==
    [user EXCEPT
        !.username = IF newUsername # "" THEN newUsername ELSE @,
        !.password = IF newPassword # ""
                     THEN GenerateFromPassword(newPassword, salt) ELSE @,
        !.updated_at = t]

(* Mutant: EditUser scans for the new username as AddUser does. *)
EditUserBody_ChecksUsername(p) ==
    /\ pc[p] = "body"
    /\ call[p].op = "EditUser"
    /\ LET c == call[p] IN
       IF c.id \notin DOMAIN users[p]
       THEN Fail(p, ErrNotFound)
       ELSE IF \E k \in DOMAIN users[p] \ {c.id} :
                  users[p][k].username = c.username
       THEN Fail(p, ErrDuplicate)
       ELSE IF c.password # "" /\ HashFails(c.password)
       THEN Fail(p, ErrHash)
       ELSE \E t \in {now, now + 1} :
            /\ now' = t
            /\ SaveAdd(p, MapSet(users[p], c.id,
                    EditedUser(users[p][c.id], c.username, c.password, c.n, t)))
    /\ UNCHANGED <<mu, ops, conc, begun>>
    /\ UNCHANGED lvars

(* EditUser after loadUsers (lines 166-186). *)
EditUserBody(p) ==
    /\ pc[p] = "body"
    /\ call[p].op = "EditUser"
    /\ LET c == call[p] IN
       IF c.id \notin DOMAIN users[p]
       THEN Fail(p, ErrNotFound)
       ELSE IF c.password # "" /\ HashFails(c.password)
       THEN Fail(p, ErrHash)
       ELSE \E t \in {now, now + 1} :
            /\ now' = t
            /\ SaveAdd(p, MapSet(users[p], c.id,
                    EditedUser(users[p][c.id], c.username, c.password, c.n, t)))
    /\ UNCHANGED <<mu, ops, conc, begun>>
    /\ UNCHANGED lvars

(* DeleteUser after loadUsers (lines 201-206). *)
DeleteUserBody(p) ==
    /\ pc[p] = "body"
    /\ call[p].op = "DeleteUser"
    /\ IF call[p].id \notin DOMAIN users[p]
       THEN Fail(p, ErrNotFound)
       ELSE /\ SaveAdd(p, MapDelete(users[p], call[p].id))
            /\ UNCHANGED now
    /\ UNCHANGED <<mu, ops, conc, begun>>
    /\ UNCHANGED lvars

(* Mutant: Login stores the mapping it loaded, as the mutating calls do. *)
LoginBody_Resaves(p) ==
    /\ pc[p] = "body"
    /\ call[p].op = "Login"
    /\ SaveAdd(p, users[p])
    /\ UNCHANGED <<mu, now, ops, conc, begun>>
    /\ UNCHANGED lvars

(* Login after loadUsers (lines 221-230). *)
LoginBody(p) ==
    /\ pc[p] = "body"
    /\ call[p].op = "Login"
    /\ \E r \in LoginOutcomes(users[p], call[p].username, call[p].password) :
          Return(p, r.err, r.id)
    /\ UNCHANGED <<cid, ipfs, mu, now, ops, conc, begun, writes>>
    /\ UNCHANGED lvars

(* Mutant: the write lock is granted while readers hold the read lock. *)
SaveLock_IgnoresReaders(p) ==
    /\ pc[p] = "lock"
    /\ ~mu.writer
    /\ mu' = [mu EXCEPT !.writer = TRUE]
    /\ pc' = [pc EXCEPT ![p] = "swap"]
    /\ UNCHANGED <<cid, ipfs, now, ops, call, users, newcid, ret, conc, begun,
                   deleted, writes, succ>>
    /\ UNCHANGED lvars

(* saveUsers: im.mu.Lock() *)
SaveLock(p) ==
    /\ pc[p] = "lock"
    /\ ~mu.writer
    /\ mu.readers = 0
    /\ mu' = [mu EXCEPT !.writer = TRUE]
    /\ pc' = [pc EXCEPT ![p] = "swap"]
    /\ UNCHANGED <<cid, ipfs, now, ops, call, users, newcid, ret, conc, begun,
                   deleted, writes, succ>>
    /\ UNCHANGED lvars

(* Mutant: storing an empty mapping resets im.cid to "". *)
SaveSwap_UnsetsWhenEmpty(p) ==
    /\ pc[p] = "swap"
    /\ cid' = IF users[p] = EmptyMap THEN NoCid ELSE newcid[p]
    /\ writes' = writes + 1
    /\ mu' = [mu EXCEPT !.writer = FALSE]
    /\ Return(p, Nil, IF call[p].op = "AddUser" THEN call[p].n ELSE 0)
    /\ UNCHANGED <<ipfs, now, ops, conc, begun>>
    /\ UNCHANGED lvars

(* saveUsers: im.cid = cid; im.mu.Unlock(); return nil -- and the caller  *)
(* returns nil (AddUser: the new id).                                     *)
SaveSwap(p) ==
    /\ pc[p] = "swap"
    /\ cid' = newcid[p]
    /\ writes' = writes + 1
    /\ mu' = [mu EXCEPT !.writer = FALSE]
    /\ Return(p, Nil, IF call[p].op = "AddUser" THEN call[p].n ELSE 0)
    /\ UNCHANGED <<ipfs, now, ops, conc, begun>>
    /\ UNCHANGED lvars

Step(p, U, P) ==
    \/ CallAddUser(p, U, P)
    \/ CallEditUser(p, U, P)
    \/ CallDeleteUser(p)
    \/ CallLogin(p, U, P)
    \/ LoadRLock(p)
    \/ LoadOk(p)
    \/ LoadFail(p)
    \/ AddUserBody(p)
    \/ EditUserBody(p)
    \/ DeleteUserBody(p)
    \/ LoginBody(p)
    \/ SaveLock(p)
    \/ SaveSwap(p)

(* Handler goroutines run concurrently (net/http serves every request on  *)
(* its own goroutine).                                                    *)
Next ==
    \/ \E p \in Procs : CallAddUser(p, ConcUsernames, ConcPlaintexts)
    \/ \E p \in Procs : CallEditUser(p, ConcUsernames, ConcPlaintexts)
    \/ \E p \in Procs : CallDeleteUser(p)
    \/ \E p \in Procs : CallLogin(p, ConcUsernames, ConcPlaintexts)
    \/ \E p \in Procs : LoadRLock(p)
    \/ \E p \in Procs : LoadOk(p)
    \/ \E p \in Procs : LoadFail(p)
    \/ \E p \in Procs : AddUserBody(p)
    \/ \E p \in Procs : EditUserBody(p)
    \/ \E p \in Procs : DeleteUserBody(p)
    \/ \E p \in Procs : LoginBody(p)
    \/ \E p \in Procs : SaveLock(p)
    \/ \E p \in Procs : SaveSwap(p)

Spec == Init /\ [][Next]_vars

(* One caller making its calls one after the other: every call starts     *)
(* after the previous one returned.                                       *)
Caller == Min(Procs)

SeqNext == Step(Caller, Usernames, Plaintexts)

SpecSeq == Init /\ [][SeqNext]_vars

(* The steps goroutine p takes inside a call it has started. *)
Internal(p) ==
    \/ LoadRLock(p)
    \/ LoadOk(p)
    \/ LoadFail(p)
    \/ AddUserBody(p)
    \/ EditUserBody(p)
    \/ DeleteUserBody(p)
    \/ LoginBody(p)
    \/ SaveLock(p)
    \/ SaveSwap(p)

(* Fair scheduling: a goroutine that can take a step inside its call      *)
(* eventually takes one (the blob store and bcrypt always answer).        *)
(* The lock and the return of a call do not depend on the usernames, so   *)
(* the fair exploration draws them from one name.                         *)
FairUsernames == {"alice"}

FairNext ==
    \/ \E p \in Procs : CallAddUser(p, FairUsernames, ConcPlaintexts)
    \/ \E p \in Procs : CallEditUser(p, FairUsernames, ConcPlaintexts)
    \/ \E p \in Procs : CallDeleteUser(p)
    \/ \E p \in Procs : CallLogin(p, FairUsernames, ConcPlaintexts)
    \/ \E p \in Procs : LoadRLock(p)
    \/ \E p \in Procs : LoadOk(p)
    \/ \E p \in Procs : LoadFail(p)
    \/ \E p \in Procs : AddUserBody(p)
    \/ \E p \in Procs : EditUserBody(p)
    \/ \E p \in Procs : DeleteUserBody(p)
    \/ \E p \in Procs : LoginBody(p)
    \/ \E p \in Procs : SaveLock(p)
    \/ \E p \in Procs : SaveSwap(p)

SpecFair ==
    Init /\ [][FairNext]_vars /\ \A p \in Procs : WF_vars(Internal(p))

----------------------------------------------------------------------------
(* The ledger variant: an express server whose handlers call the chaincode *)
(* of a Hyperledger Fabric network.  A handler runs until its next await;  *)
(* the handlers of other requests run in between.                          *)

StatusCreated == 201
StatusForbidden == 403
StatusNotFound == 404
StatusInternalServerError == 500

(* The chaincode the handlers call: CreateUser stores the user under its  *)
(* username (and fails when one is stored already), QueryUser reads it,   *)
(* UpdateUserStatus replaces the status of the stored user.               *)
CreateUser(w, username, password, status) ==
    [u \in DOMAIN w \cup {username} |->
        IF u = username THEN [password |-> password, status |-> status]
        ELSE w[u]]

QueryUser(w, username) == w[username]

UpdateUserStatus(w, username, status) ==
    [w EXCEPT ![username].status = status]

(* res.status(code).json(...): the handler of client c answers. *)
Respond(c, route, username, code) ==
    /\ resp' = [client |-> c, route |-> route, username |-> username,
                code |-> code]
    /\ req' = [req EXCEPT ![c] = NoReq]

(* app.post('/register'): submitTransaction('CreateUser', ..., 'offline') *)
PostRegister(c) ==
    /\ req[c].pc = "idle"
    /\ nreq < MaxRequests
    /\ nreq' = nreq + 1
    /\ \E u \in LedgerUsernames, pw \in LedgerPasswords :
          \/ /\ u \notin DOMAIN world
             /\ world' = CreateUser(world, u, pw, "offline")
             /\ Respond(c, "/register", u, StatusCreated)
          \/ /\ Respond(c, "/register", u, StatusInternalServerError)
             /\ UNCHANGED world
    /\ UNCHANGED sessions
    /\ UNCHANGED ivars

(* app.post('/login') up to its second await: evaluateTransaction         *)
(* ('QueryUser'), the three checks, and the call of submitTransaction.    *)
LoginQuery(c) ==
    /\ req[c].pc = "idle"
    /\ nreq < MaxRequests
    /\ nreq' = nreq + 1
    /\ \E u \in LedgerUsernames, pw \in LedgerPasswords :
          IF u \notin DOMAIN world
          THEN \E code \in {StatusNotFound, StatusInternalServerError} :
                  Respond(c, "/login", u, code)
          ELSE LET user == QueryUser(world, u) IN
               IF user.password # pw
               THEN Respond(c, "/login", u, StatusUnauthorized)
               ELSE IF user.status = "online"
               THEN Respond(c, "/login", u, StatusForbidden)
               ELSE /\ req' = [req EXCEPT ![c] =
                                 [route |-> "/login", username |-> u,
                                  password |-> pw, pc |-> "submit"]]
                    /\ UNCHANGED resp
    /\ UNCHANGED <<world, sessions>>
    /\ UNCHANGED ivars

(* app.post('/login') from its second await: the transaction              *)
(* UpdateUserStatus(username, 'online') commits and the handler answers   *)
(* 200, or it fails and the handler answers 500.                          *)
LoginSubmit(c) ==
    /\ req[c].pc = "submit"
    /\ req[c].route = "/login"
    /\ LET u == req[c].username IN
          \/ /\ world' = UpdateUserStatus(world, u, "online")
             /\ sessions' = [sessions EXCEPT ![u] = Append(@, "login")]
             /\ Respond(c, "/login", u, StatusOK)
          \/ /\ Respond(c, "/login", u, StatusInternalServerError)
             /\ UNCHANGED <<world, sessions>>
    /\ UNCHANGED nreq
    /\ UNCHANGED ivars

(* app.post('/logout') up to its second await. *)
LogoutQuery(c) ==
    /\ req[c].pc = "idle"
    /\ nreq < MaxRequests
    /\ nreq' = nreq + 1
    /\ \E u \in LedgerUsernames :
          IF u \notin DOMAIN world
          THEN \E code \in {StatusNotFound, StatusInternalServerError} :
                  Respond(c, "/logout", u, code)
          ELSE LET user == QueryUser(world, u) IN
               IF user.status = "offline"
               THEN Respond(c, "/logout", u, StatusBadRequest)
               ELSE /\ req' = [req EXCEPT ![c] =
                                 [route |-> "/logout", username |-> u,
                                  password |-> "", pc |-> "submit"]]
                    /\ UNCHANGED resp
    /\ UNCHANGED <<world, sessions>>
    /\ UNCHANGED ivars

(* app.post('/logout') from its second await. *)
LogoutSubmit(c) ==
    /\ req[c].pc = "submit"
    /\ req[c].route = "/logout"
    /\ LET u == req[c].username IN
          \/ /\ world' = UpdateUserStatus(world, u, "offline")
             /\ sessions' = [sessions EXCEPT ![u] = Append(@, "logout")]
             /\ Respond(c, "/logout", u, StatusOK)
          \/ /\ Respond(c, "/logout", u, StatusInternalServerError)
             /\ UNCHANGED <<world, sessions>>
    /\ UNCHANGED nreq
    /\ UNCHANGED ivars

LedgerNext ==
    \/ \E c \in Procs : PostRegister(c)
    \/ \E c \in Procs : LoginQuery(c)
    \/ \E c \in Procs : LoginSubmit(c)
    \/ \E c \in Procs : LogoutQuery(c)
    \/ \E c \in Procs : LogoutSubmit(c)

SpecLedger == Init /\ [][LedgerNext]_vars

----------------------------------------------------------------------------
(* Vocabulary of the properties *)

(* Goroutine p made a mutating call that returned nil, and has made no    *)
(* call since.                                                            *)
Succeeded(p) == pc[p] = "idle" /\ call[p].op \in Mutators

(* The calls of p and q (their current or last ones) overlapped in time,  *)
(* and no call of another goroutine overlapped either.                    *)
Overlapped(p, q) == p # q /\ conc[p] = {q} /\ conc[q] = {p}

(* Goroutine p returns from its call in this step. *)
Returns(p) == pc[p] # "idle" /\ pc'[p] = "idle"

(* Between the start of loadUsers' read and the end of saveUsers. *)
InLoadToStore(p) ==
    call[p].op \in Mutators /\ pc[p] \in {"cat", "body", "lock", "swap"}

(* The record a call touches, and whether a mapping shows its effect. *)
Touched(c) == IF c.op = "AddUser" THEN c.n ELSE c.id

EffectIn(c, m) ==
    CASE c.op = "AddUser" ->
            c.n \in DOMAIN m /\ m[c.n].username = c.username
      [] c.op = "EditUser" ->
            /\ c.id \in DOMAIN m
            /\ c.username # "" => m[c.id].username = c.username
            /\ c.password # "" => CompareHashAndPassword(m[c.id].password, c.password)
      [] c.op = "DeleteUser" -> c.id \notin DOMAIN m
      [] OTHER -> TRUE

(* The ids of the records of m that hold a username. *)
Holders(m, username) == {k \in DOMAIN m : m[k].username = username}

(* No two records of m share a username. *)
UniqueUsernames(m) ==
    \A j, k \in DOMAIN m : m[j].username = m[k].username => j = k

----------------------------------------------------------------------------
(* C1: two AddUser calls with the same username that run concurrently on  *)
(* a directory whose snapshot holds no record of that username never both *)
(* return an id.                                                          *)
C1_NeverTwoSuccesses ==
    \A p, q \in Procs :
        ~ ( /\ Overlapped(p, q)
            /\ Succeeded(p) /\ call[p].op = "AddUser"
            /\ Succeeded(q) /\ call[q].op = "AddUser"
            /\ call[p].username = call[q].username )

(* C2: when two mutating calls that touch different records overlap and   *)
(* both return nil, the snapshot the pointer names after both returned    *)
(* shows the effect of both.                                              *)
C2_NoLostWrite ==
    \A p, q \in Procs :
        ( /\ Overlapped(p, q)
          /\ Succeeded(p) /\ Succeeded(q)
          /\ Touched(call[p]) # Touched(call[q])
          /\ call[p].username # call[q].username )
        => EffectIn(call[p], Current) /\ EffectIn(call[q], Current)

(* C3: at most one mutating call is between the start of its load and    *)
(* the completion of its store.                                           *)
C3_OneMutatorInLoadToStore ==
    Cardinality({p \in Procs : InLoadToStore(p)}) <= 1

----------------------------------------------------------------------------
(* Properties of calls made one after the other (SpecSeq) *)

(* C4: after any sequence of AddUser calls on a fresh directory, each     *)
(* started after the previous one returned, the snapshot the pointer      *)
(* names holds at most one record of any username.                        *)
C4_SequentialAddsUnique ==
    begun \subseteq {"AddUser"} => UniqueUsernames(Current)

(* Three AddUser calls were made: two records are stored and the third    *)
(* call was turned down as a duplicate.                                   *)
C4_Witness ==
    /\ begun = {"AddUser"}
    /\ Cardinality(DOMAIN Current) = 2
    /\ ret.op = "AddUser" /\ ret.err = ErrDuplicate

(* C5: an AddUser (past its load) whose username is held by a record of   *)
(* the current snapshot returns "username already exists", stores         *)
(* nothing and leaves the pointer and the blobs as they were; Login with  *)
(* the holder's credentials still returns the holder's id.                *)
C5_DuplicateRejected ==
    [][\A p \in Procs :
        ( /\ pc[p] = "body" /\ pc'[p] # "body"
          /\ call[p].op = "AddUser"
          /\ Holders(Current, call[p].username) # {} )
        => /\ pc'[p] = "idle"
           /\ ret'.proc = p /\ ret'.err = ErrDuplicate /\ ret'.id = 0
           /\ cid' = cid
           /\ ipfs' = ipfs
           /\ writes' = writes
           /\ \A k \in DOMAIN Current : \A pw \in Plaintexts :
                ( /\ Current[k].username = call[p].username
                  /\ UniqueUsernames(Current)
                  /\ CompareHashAndPassword(Current[k].password, pw) )
                => LoginOutcomes(Snapshot(ipfs', cid'), call[p].username, pw)
                      = {[err |-> Nil, id |-> k]}
      ]_vars

(* An AddUser was turned down as a duplicate while a record is stored.    *)
C5_Witness ==
    /\ ret.op = "AddUser" /\ ret.err = ErrDuplicate
    /\ cid # NoCid /\ DOMAIN Current # {}
    /\ pc[ret.proc] = "idle"

(* C6: when AddUser(u, p) returns id, then on the snapshot the pointer    *)
(* names at that moment Login(u, p) returns id, Login(u, q) with q # p    *)
(* fails with "invalid password", and Login(v, any) for a username v no   *)
(* record holds fails with "user not found".                              *)
C6_AddThenLogin ==
    [][\A p \in Procs :
        (pc[p] = "swap" /\ call[p].op = "AddUser" /\ Returns(p))
        => LET c == call[p]
               m == Snapshot(ipfs', cid')
           IN  /\ ret'.err = Nil /\ ret'.id = c.n
               /\ LoginOutcomes(m, c.username, c.password)
                     = {[err |-> Nil, id |-> ret'.id]}
               /\ \A q \in Plaintexts \ {c.password} :
                     LoginOutcomes(m, c.username, q)
                        = {[err |-> ErrInvalid, id |-> 0]}
               /\ \A v \in Usernames : \A q \in Plaintexts :
                     Holders(m, v) = {}
                        => LoginOutcomes(m, v, q)
                              = {[err |-> ErrNotFound, id |-> 0]}
      ]_vars

(* AddUser returned the id of a record that is now stored next to an      *)
(* older one, and some username is held by no record.                     *)
C6_Witness ==
    /\ ret.op = "AddUser" /\ ret.err = Nil
    /\ ret.id \in DOMAIN Current
    /\ Cardinality(DOMAIN Current) = 2
    /\ \E v \in Usernames : Holders(Current, v) = {}

(* C7: DeleteUser(id) (past its load, the blob store accepting the write) *)
(* on an id of the current snapshot returns nil and removes exactly that  *)
(* record; every later DeleteUser(id) or EditUser(id, ...) returns "user  *)
(* not found" and stores nothing.                                         *)
C7_DeleteOnce ==
    [][\A p \in Procs :
        /\ ( /\ pc[p] = "body" /\ pc'[p] # "body"
             /\ call[p].op = "DeleteUser"
             /\ call[p].id \in DOMAIN Current )
           => \/ pc'[p] = "lock"
              \/ pc'[p] = "idle" /\ ret'.err = ErrAdd
        /\ (pc[p] = "swap" /\ call[p].op = "DeleteUser" /\ Returns(p))
           => /\ ret'.err = Nil
              /\ call[p].id \in DOMAIN Current
              /\ Snapshot(ipfs', cid')
                    = [k \in DOMAIN Current \ {call[p].id} |-> Current[k]]
              /\ call[p].id \in deleted'
        /\ ( /\ pc[p] = "body" /\ pc'[p] # "body"
             /\ call[p].op \in {"DeleteUser", "EditUser"}
             /\ call[p].id \in deleted )
           => /\ pc'[p] = "idle"
              /\ ret'.proc = p /\ ret'.err = ErrNotFound
              /\ cid' = cid /\ ipfs' = ipfs /\ writes' = writes
      ]_vars

(* A DeleteUser returned nil, and a later DeleteUser or EditUser of the   *)
(* same id returned "user not found".                                     *)
C7_Witness ==
    /\ ret.op \in {"DeleteUser", "EditUser"}
    /\ ret.arg \in deleted
    /\ ret.err = ErrNotFound

----------------------------------------------------------------------------
(* Properties of concurrent calls (Spec) *)

(* C9: every content id the blob store resolves keeps resolving to the    *)
(* same bytes, among them every value the pointer ever had; nothing       *)
(* stored is overwritten or deleted.                                      *)
C9_SnapshotsImmutable ==
    [][ /\ \A a \in DOMAIN ipfs : a \in DOMAIN ipfs' /\ ipfs'[a] = ipfs[a]
        /\ cid # NoCid => cid \in DOMAIN ipfs
        /\ cid' # NoCid => cid' \in DOMAIN ipfs'
      ]_vars

(* The pointer has moved twice and the store holds three snapshots. *)
C9_Witness ==
    /\ writes >= 2
    /\ cid # NoCid
    /\ Cardinality(DOMAIN ipfs) >= 3

(* C10: the pointer starts unset; in every step the number of writes of   *)
(* im.cid grows exactly as the number of mutating calls that returned nil *)
(* does, and the pointer changes in no step without such a write.         *)
C10_PointerWrittenOncePerSuccess ==
    /\ cid = NoCid /\ writes = 0 /\ succ = 0
    /\ [][ /\ writes' - writes = succ' - succ
           /\ cid' # cid => writes' = writes + 1
         ]_vars

(* Three mutating calls returned nil, three pointer writes were made. *)
C10_Witness ==
    /\ succ = 3 /\ writes = 3 /\ cid # NoCid
    /\ \A p \in Procs : pc[p] = "idle"

----------------------------------------------------------------------------
(* Failure and frame properties of calls made one after the other (SpecSeq) *)

(* C11: a step in which AddUser, EditUser or DeleteUser returns an error  *)
(* (duplicate username, user not found, failed fetch, failed hash, failed *)
(* add) leaves the pointer, the count of pointer writes and the mapping   *)
(* the pointer names as they were; and the pointer moves only in a step   *)
(* in which a mutating call returns nil, so a call that fails returns     *)
(* with the pointer it started with.                                      *)
C11_FailureLeavesPointer ==
    [][ /\ \A p \in Procs :
            (Returns(p) /\ call[p].op \in Mutators /\ ret'.err # Nil)
            => /\ cid' = cid
               /\ writes' = writes
               /\ Snapshot(ipfs', cid') = Current
        /\ cid' # cid =>
            \E p \in Procs : /\ pc[p] = "swap" /\ Returns(p)
                             /\ call[p].op \in Mutators /\ ret'.err = Nil
      ]_vars

(* A DeleteUser of a stored record failed at the blob-store write: the    *)
(* record is still in the snapshot the pointer names.                     *)
C11_Witness ==
    /\ ret.op = "DeleteUser" /\ ret.err = ErrAdd
    /\ cid # NoCid
    /\ ret.arg \in DOMAIN Current
    /\ pc[ret.proc] = "idle"

(* C12: no step of a Login call changes the pointer or the blobs or       *)
(* reaches saveUsers, and Login returns nil, "user not found", "invalid   *)
(* password" or the fetch error.                                          *)
C12_LoginReadOnly ==
    [][\A p \in Procs :
        (call[p].op = "Login" /\ pc'[p] # pc[p])
        => /\ cid' = cid
           /\ ipfs' = ipfs
           /\ writes' = writes
           /\ pc'[p] \notin {"lock", "swap"}
           /\ pc'[p] = "idle" =>
                /\ ret'.op = "Login"
                /\ ret'.err \in {Nil, ErrNotFound, ErrInvalid, ErrFetch}
      ]_vars

(* A Login on a directory with a stored record was turned down for its    *)
(* password.                                                              *)
C12_Witness ==
    /\ ret.op = "Login" /\ ret.err = ErrInvalid
    /\ cid # NoCid /\ DOMAIN Current # {}
    /\ pc[ret.proc] = "idle"

(* C13: in every snapshot the pointer names, no two records have the same *)
(* username.                                                              *)
C13_UniqueUsernames == UniqueUsernames(Current)

C19_CreatedEqualsUpdated ==
    [][\A p \in Procs :
        (pc[p] = "swap" /\ call[p].op = "AddUser" /\ Returns(p))
        => LET r == Snapshot(ipfs', cid')[call[p].n]
           IN  r.created_at = r.updated_at
      ]_vars

(* C20: an AddUser with an empty username or an empty plaintext never     *)
(* gets to store a mapping nor returns nil, and no record of a snapshot   *)
(* the pointer names has an empty username.                               *)
C20_AddUserRejectsEmpty ==
    /\ \A p \in Procs :
          ( /\ call[p].op = "AddUser"
            /\ (call[p].username = "" \/ call[p].password = "") )
          => pc[p] \notin {"lock", "swap"} /\ ~Succeeded(p)
    /\ \A k \in DOMAIN Current : Current[k].username # ""

----------------------------------------------------------------------------
(* Properties of concurrent calls, continued (Spec, SpecFair) *)

(* C14: once DeleteUser(id) has returned nil, an EditUser(id, ...) that   *)
(* returns nil afterwards has not put record id back: the snapshot the    *)
(* pointer names when it returns does not contain id.                     *)
C14_EditNeverReinserts ==
    \A p \in Procs :
        ( /\ Succeeded(p) /\ ret.proc = p
          /\ call[p].op = "EditUser"
          /\ call[p].id \in deleted )
        => call[p].id \notin DOMAIN Current

(* C15: the pointer is not written while a goroutine holds the read lock  *)
(* of loadUsers, so the mapping a Login loads is the one the pointer      *)
(* names at that moment; and what Login returns is an outcome of Login's  *)
(* scan of that mapping.                                                  *)
C15_LoginConsistentSnapshot ==
    [][ /\ mu.readers > 0 => cid' = cid
        /\ \A p \in Procs :
            (call[p].op = "Login" /\ pc[p] = "cat" /\ pc'[p] = "body")
            => users'[p] = Current /\ cid' = cid
        /\ \A p \in Procs :
            (call[p].op = "Login" /\ pc[p] = "body" /\ Returns(p))
            => [err |-> ret'.err, id |-> ret'.id]
                  \in LoginOutcomes(users[p], call[p].username, call[p].password)
      ]_vars

(* A Login has loaded its mapping and the pointer has moved on since. *)
C15_Witness ==
    \E p \in Procs :
        /\ call[p].op = "Login" /\ pc[p] = "body"
        /\ users[p] # Current
        /\ DOMAIN users[p] # {}

(* C16: under fair scheduling every call that has started returns. *)
C16_EveryCallReturns ==
    \A p \in Procs : (pc[p] # "idle") ~> (pc[p] = "idle")

(* A goroutine waits for the write lock while another holds the read lock. *)
C16_Witness ==
    \E p, q \in Procs :
        /\ pc[p] = "lock" /\ pc[q] = "cat"
        /\ mu.readers > 0

(* C18 (first half): the snapshot a successful EditUser(id, ...) makes    *)
(* current does not carry a lower updated_at for id than the snapshot     *)
(* that was current before, also when edits of id run concurrently.       *)
C18_UpdatedAtNeverDecreases ==
    [][\A p \in Procs :
        ( /\ pc[p] = "swap" /\ Returns(p)
          /\ call[p].op = "EditUser"
          /\ call[p].id \in DOMAIN Current )
        => Snapshot(ipfs', cid')[call[p].id].updated_at
              >= Current[call[p].id].updated_at
      ]_vars

----------------------------------------------------------------------------
(* Behaviour of EditUser, loadUsers and Login (SpecSeq; C25 under Spec) *)

(* In every stored blob each record is stored under its own id. *)
KeysAreIds(store) ==
    \A a \in DOMAIN store : \A i \in DOMAIN store[a] :
        store[a][i].value.id = store[a][i].key

(* C21: an EditUser(id, newUsername, ...) of a stored id whose non-empty   *)
(* newUsername is held by a different record is not turned down (only a failing hash  *)
(* or store makes it fail): it stores the mapping, and when it returns    *)
(* nil the snapshot the pointer names has two records of that username.   *)
C21_EditUserNoUniquenessCheck ==
    [][\A p \in Procs :
        /\ ( /\ pc[p] = "body" /\ pc'[p] # "body"
             /\ call[p].op = "EditUser"
             /\ call[p].id \in DOMAIN Current
             /\ call[p].username # ""
             /\ Holders(Current, call[p].username) \ {call[p].id} # {}
             /\ call[p].password # TooLong )
           => \/ /\ pc'[p] = "lock"
                 /\ newcid'[p] \in DOMAIN ipfs'
                 /\ Cardinality(Holders(Snapshot(ipfs', newcid'[p]),
                                        call[p].username)) >= 2
              \/ pc'[p] = "idle" /\ ret'.err = ErrAdd
        /\ ( /\ pc[p] = "swap" /\ Returns(p)
             /\ call[p].op = "EditUser"
             /\ call[p].username # ""
             /\ Holders(Current, call[p].username) \ {call[p].id} # {} )
           => /\ ret'.err = Nil
              /\ Holders(Snapshot(ipfs', cid'), call[p].username)
                    = Holders(Current, call[p].username) \cup {call[p].id}
              /\ Cardinality(Holders(Snapshot(ipfs', cid'), call[p].username)) >= 2
      ]_vars

(* An EditUser returned nil and its username is now held by two records. *)
C21_Witness ==
    \E p \in Procs :
        /\ Succeeded(p) /\ ret.proc = p /\ ret.op = "EditUser"
        /\ call[p].username # ""
        /\ Cardinality(Holders(Current, call[p].username)) = 2

(* C22: when EditUser(id, "", p2) returns nil, record id has the username *)
(* it had and a credential that verifies p2; with id the only holder of   *)
(* that username u, Login(u, p2) returns id and Login(u, p1) fails with   *)
(* "invalid password" for every p1 # p2.                                  *)
C22_EditPasswordOnly ==
    [][\A p \in Procs :
        ( /\ pc[p] = "swap" /\ Returns(p)
          /\ call[p].op = "EditUser"
          /\ call[p].username = "" /\ call[p].password # "" )
        => LET id == call[p].id
               p2 == call[p].password
               u == Current[id].username
               new == Snapshot(ipfs', cid')
           IN  /\ new[id].username = u
               /\ CompareHashAndPassword(new[id].password, p2)
               /\ Holders(new, u) = {id} =>
                    /\ LoginOutcomes(new, u, p2) = {[err |-> Nil, id |-> id]}
                    /\ \A p1 \in Plaintexts \ {p2} :
                          LoginOutcomes(new, u, p1)
                             = {[err |-> ErrInvalid, id |-> 0]}
      ]_vars

(* An EditUser(id, "", "wrong") returned nil on a record of alice: the    *)
(* record holds a new hash, of "wrong".                                   *)
C22_Witness ==
    \E p \in Procs :
        /\ Succeeded(p) /\ ret.proc = p /\ ret.op = "EditUser"
        /\ call[p].username = "" /\ call[p].password = "wrong"
        /\ Current[call[p].id].username = "alice"
        /\ Current[call[p].id].password = [salt |-> call[p].n, of |-> "wrong"]

(* C23: every record of every stored snapshot is stored under its id; an  *)
(* EditUser(id, ...) that returns nil leaves the id and created_at of     *)
(* record id and every other record as they were, and a DeleteUser(id)    *)
(* that returns nil leaves every other record as it was.                  *)
C23_IdImmutable ==
    [][ /\ KeysAreIds(ipfs')
        /\ \A p \in Procs :
            (pc[p] = "swap" /\ Returns(p) /\ call[p].op = "EditUser")
            => LET id == call[p].id
                   new == Snapshot(ipfs', cid')
               IN  /\ DOMAIN new = DOMAIN Current
                   /\ new[id].id = id
                   /\ new[id].created_at = Current[id].created_at
                   /\ \A k \in DOMAIN Current \ {id} : new[k] = Current[k]
        /\ \A p \in Procs :
            (pc[p] = "swap" /\ Returns(p) /\ call[p].op = "DeleteUser")
            => LET new == Snapshot(ipfs', cid')
               IN  /\ DOMAIN new = DOMAIN Current \ {call[p].id}
                   /\ \A k \in DOMAIN new : new[k] = Current[k]
      ]_vars

(* An EditUser that replaced the password returned nil on a directory of  *)
(* two records.                                                           *)
C23_Witness ==
    \E p \in Procs :
        /\ Succeeded(p) /\ ret.proc = p /\ ret.op = "EditUser"
        /\ call[p].password # ""
        /\ Cardinality(DOMAIN Current) = 2

(* C24: while im.cid is unset loadUsers returns the empty map without a   *)
(* fetch and without an error; then Login, EditUser and DeleteUser return *)
(* "user not found" (the pointer staying unset) and AddUser is turned     *)
(* down by no check: it stores the first snapshot unless the hash or the  *)
(* add fails.                                                             *)
C24_UnsetPointerLoadsEmpty ==
    [][\A p \in Procs :
        /\ (pc[p] = "cat" /\ cid = NoCid /\ pc'[p] # "cat")
           => pc'[p] = "body" /\ users'[p] = EmptyMap /\ ipfs' = ipfs
        /\ (pc[p] = "body" /\ cid = NoCid /\ pc'[p] # "body")
           => /\ call[p].op = "Login"
                 => pc'[p] = "idle" /\ ret'.err = ErrNotFound
              /\ call[p].op \in {"EditUser", "DeleteUser"}
                 => pc'[p] = "idle" /\ ret'.err = ErrNotFound /\ cid' = NoCid
              /\ (call[p].op = "AddUser" /\ call[p].password # TooLong)
                 => \/ pc'[p] = "lock"
                    \/ pc'[p] = "idle" /\ ret'.err = ErrAdd
        /\ ( /\ pc[p] = "swap" /\ Returns(p) /\ cid = NoCid
             /\ call[p].op = "AddUser" )
           => /\ ret'.err = Nil
              /\ cid' # NoCid
              /\ DOMAIN Snapshot(ipfs', cid') = {ret'.id}
      ]_vars

(* On a fresh directory a Login and an EditUser were made, and then the   *)
(* first AddUser returned an id.                                          *)
C24_Witness ==
    /\ ret.op = "AddUser" /\ ret.err = Nil
    /\ writes = 1 /\ ops = 3
    /\ begun = {"Login", "EditUser", "AddUser"}

(* C25: the pointer is unset or the address of a stored blob that is the  *)
(* serialization of a whole mapping; once set it is never unset, and a    *)
(* DeleteUser of the last record leaves it naming a stored empty mapping. *)
C25_PointerValid ==
    [][ /\ cid' # NoCid =>
            /\ cid' \in DOMAIN ipfs'
            /\ cid' = AddressOf(ipfs'[cid'])
            /\ Marshal(Unmarshal(ipfs'[cid'])) = ipfs'[cid']
        /\ cid # NoCid => cid' # NoCid
        /\ \A p \in Procs :
            ( /\ pc[p] = "swap" /\ Returns(p)
              /\ call[p].op = "DeleteUser" /\ DOMAIN users[p] = {} )
            => cid' # NoCid /\ Snapshot(ipfs', cid') = EmptyMap
      ]_vars

(* The last record was deleted: the pointer names a stored empty mapping. *)
C25_Witness ==
    /\ cid # NoCid
    /\ Current = EmptyMap
    /\ deleted # {}
    /\ ret.op = "DeleteUser" /\ ret.err = Nil

(* C26: whenever the snapshot the pointer names has a record of username  *)
(* u whose credential verifies p, Login(u, p) on that snapshot returns    *)
(* that record's id, whatever the order of the scan.                      *)
C26_LoginComplete ==
    \A k \in DOMAIN Current : \A pw \in Plaintexts :
        CompareHashAndPassword(Current[k].password, pw)
        => LoginOutcomes(Current, Current[k].username, pw)
              = {[err |-> Nil, id |-> k]}

(* C27: Login returns an id only of a record of the mapping it loaded     *)
(* that is stored under that id, has exactly the username asked for and   *)
(* a credential that verifies the plaintext; with an error it returns no  *)
(* id.                                                                    *)
C27_LoginSound ==
    [][\A p \in Procs :
        (pc[p] = "body" /\ call[p].op = "Login" /\ Returns(p))
        => IF ret'.err = Nil
           THEN /\ ret'.id \in DOMAIN users[p]
                /\ users[p][ret'.id].id = ret'.id
                /\ users[p][ret'.id].username = call[p].username
                /\ CompareHashAndPassword(users[p][ret'.id].password,
                                          call[p].password)
           ELSE ret'.id = 0
      ]_vars

(* A Login returned the id of one of two stored records. *)
C27_Witness ==
    /\ ret.op = "Login" /\ ret.err = Nil
    /\ ret.id \in DOMAIN Current
    /\ Cardinality(DOMAIN Current) = 2

----------------------------------------------------------------------------
(* The ledger variant (SpecLedger) *)

(* C28: for each user the successful /login and /logout requests          *)
(* alternate, starting with /login (so no two /login succeed without a    *)
(* /logout in between, also when issued concurrently), and the stored     *)
(* status is online exactly after a successful /login.                    *)
C28_LoginLogoutAlternate ==
    \A u \in LedgerUsernames :
        /\ \A i \in DOMAIN sessions[u] :
              sessions[u][i] = IF i % 2 = 1 THEN "login" ELSE "logout"
        /\ u \in DOMAIN world =>
              (world[u].status = "online" <=> Len(sessions[u]) % 2 = 1)

====
